---------------------------- MODULE Spec2Model ----------------------------
(***************************************************************************)
(* Model of the emission calculation engine of carbon_footprint_mvp        *)
(* (src/src/core.py, class EmissionCalculator).                            *)
(*                                                                         *)
(* Conventions                                                             *)
(*  - A Python float is an exact rational [n |-> numerator, d |-> denom],  *)
(*    kept in lowest terms with d > 0 (binary rounding is abstracted).     *)
(*  - A text cell of a table is a string; a missing cell (pandas NaN) is   *)
(*    the record NaN.  A factor cell is a rational, or NaN when the cell   *)
(*    is missing or not numeric (what pd.to_numeric(errors='coerce')       *)
(*    yields).                                                             *)
(*  - A call returns Ok(value) or Raise(exception class name).             *)
(*  - geopy's geodesic is an external library: it is modelled by the       *)
(*    planar surrogate Geodesic over a small grid of coordinates.          *)
(***************************************************************************)
EXTENDS Integers, Sequences, FiniteSets, TLC

-----------------------------------------------------------------------------
(* Exact rational arithmetic standing for Python float arithmetic.         *)

Abs(x) == IF x < 0 THEN -x ELSE x

RECURSIVE GCD(_, _)
GCD(a, b) == IF b = 0 THEN a ELSE GCD(b, a % b)

Q(num, den) ==
    LET g == GCD(Abs(num), Abs(den))
        s == IF den < 0 THEN -1 ELSE 1
    IN  [n |-> s * (num \div g), d |-> s * (den \div g)]

QInt(i) == [n |-> i, d |-> 1]

QAdd(x, y) ==
    LET g == GCD(x.d, y.d)
    IN  Q(x.n * (y.d \div g) + y.n * (x.d \div g), (x.d \div g) * y.d)

QNeg(x) == [n |-> -x.n, d |-> x.d]
QSub(x, y) == QAdd(x, QNeg(y))

QMul(x, y) ==
    LET g1 == GCD(Abs(x.n), y.d)
        g2 == GCD(Abs(y.n), x.d)
    IN  Q((x.n \div g1) * (y.n \div g2), (x.d \div g2) * (y.d \div g1))

(* x / y for y # 0; the callers raise ZeroDivisionError before dividing. *)
QDiv(x, y) == QMul(x, Q(y.d, y.n))

QLt(x, y)  == x.n * y.d < y.n * x.d
QLeq(x, y) == x.n * y.d <= y.n * x.d
QZero == QInt(0)
QIsZero(x) == x.n = 0

(* Python int(x) of a float: truncation toward zero. *)
PyInt(x) == IF x.n >= 0 THEN x.n \div x.d ELSE -((-x.n) \div x.d)

-----------------------------------------------------------------------------
(* Call outcomes. *)

Ok(v)    == [ok |-> TRUE, val |-> v, err |-> "none"]
Raise(e) == [ok |-> FALSE, val |-> "none", err |-> e]

(* Sequencing: an exception raised by x ends the call, otherwise the code  *)
(* goes on with the value of x.                                            *)
Bind(x, Then(_)) == IF x.ok THEN Then(x.val) ELSE x

-----------------------------------------------------------------------------
(* Text: table cells and the string operations the code applies to them.   *)

Txt(s) == [na |-> FALSE, s |-> s]
NaN    == [na |-> TRUE, s |-> ""]
Num(q) == [na |-> FALSE, q |-> q]
NaNum  == [na |-> TRUE, q |-> [n |-> 0, d |-> 1]]

UpperAlpha == "ABCDEFGHIJKLMNOPQRSTUVWXYZ"
LowerAlpha == "abcdefghijklmnopqrstuvwxyz"

LowerChar(c) ==
    IF \E i \in 1..Len(UpperAlpha) : SubSeq(UpperAlpha, i, i) = c
    THEN LET i == CHOOSE j \in 1..Len(UpperAlpha) : SubSeq(UpperAlpha, j, j) = c
         IN  SubSeq(LowerAlpha, i, i)
    ELSE c

(* str.lower() *)
RECURSIVE Lower(_)
Lower(s) ==
    IF s = "" THEN ""
    ELSE LowerChar(SubSeq(s, 1, 1)) \o Lower(SubSeq(s, 2, Len(s)))

(* Python's  pat in s  for strings. *)
Contains(s, pat) ==
    \E i \in 0..(Len(s) - Len(pat)) : SubSeq(s, i + 1, i + Len(pat)) = pat

(* Series.str.contains(pat, case=False, na=False) for one cell.  pat is a  *)
(* regular expression (regex=True is the default): in the patterns the     *)
(* code meets here a parenthesis opens or closes a group and matches no    *)
(* character, a dot matches any character, any other character matches     *)
(* itself, without regard to case.                                         *)
RECURSIVE StripGroups(_)
StripGroups(pat) ==
    IF pat = "" THEN ""
    ELSE IF SubSeq(pat, 1, 1) \in {"(", ")"} THEN StripGroups(SubSeq(pat, 2, Len(pat)))
    ELSE SubSeq(pat, 1, 1) \o StripGroups(SubSeq(pat, 2, Len(pat)))

RegexMatchAt(s, i, p) ==
    \A k \in 1..Len(p) :
        SubSeq(p, k, k) = "." \/ SubSeq(s, i + k, i + k) = SubSeq(p, k, k)

RegexSearch(s, pat) ==
    LET p == StripGroups(pat)
    IN  \E i \in 0..(Len(s) - Len(p)) : RegexMatchAt(s, i, p)

StrContains(cell, pat) ==
    IF cell.na THEN FALSE ELSE RegexSearch(Lower(cell.s), Lower(pat))

(* str(cell): a missing cell prints as "nan". *)
PyStr(cell) == IF cell.na THEN "nan" ELSE cell.s

Row(l1, l2, l3, uom, ghg) ==
    [l1 |-> l1, l2 |-> l2, l3 |-> l3, uom |-> uom, ghg |-> ghg]

-----------------------------------------------------------------------------
(* The state of construction: the static tables of __init__.               *)

Dim(l, w, h) == [length |-> l, width |-> w, height |-> h]

VehicleDimensions ==
    [v \in {"Van - Class I", "Van - Class II", "Van - Class III",
            "Truck - Small", "Truck - Medium", "Truck - Large",
            "Container - 20ft", "Container - 40ft", "Aircraft Container"} |->
        CASE v = "Van - Class I"      -> Dim(Q(25, 10), Q(17, 10), Q(14, 10))
          [] v = "Van - Class II"     -> Dim(Q(30, 10), Q(18, 10), Q(16, 10))
          [] v = "Van - Class III"    -> Dim(Q(40, 10), Q(20, 10), Q(18, 10))
          [] v = "Truck - Small"      -> Dim(Q(60, 10), Q(24, 10), Q(24, 10))
          [] v = "Truck - Medium"     -> Dim(Q(80, 10), Q(24, 10), Q(26, 10))
          [] v = "Truck - Large"      -> Dim(Q(136, 10), Q(24, 10), Q(27, 10))
          [] v = "Container - 20ft"   -> Dim(Q(59, 10), Q(235, 100), Q(239, 100))
          [] v = "Container - 40ft"   -> Dim(Q(120, 10), Q(235, 100), Q(239, 100))
          [] v = "Aircraft Container" -> Dim(Q(317, 100), Q(223, 100), Q(223, 100))]

ModeChar(speed, cost, emission) ==
    [speed |-> speed, cost_factor |-> cost, emission_factor |-> emission]

ModeCharacteristics ==
    [m \in {"road", "rail", "sea", "air"} |->
        CASE m = "road" -> ModeChar(QInt(60), Q(10, 10), Q(10, 10))
          [] m = "rail" -> ModeChar(QInt(80), Q(8, 10), Q(4, 10))
          [] m = "sea"  -> ModeChar(QInt(30), Q(6, 10), Q(2, 10))
          [] m = "air"  -> ModeChar(QInt(800), Q(25, 10), Q(28, 10))]

-----------------------------------------------------------------------------
(* The engine's state: self.vehicle_dimensions, self.mode_characteristics, *)
(* the three sheets read by _load_data, the behaviour of the installed     *)
(* geopy on a missing endpoint, and the call in progress as its caller     *)
(* sees it.                                                                *)

VARIABLES vehicle_dimensions, mode_characteristics,
          delivery_modes, materials, waste_methods,
          geopy_none, call,
          earlier, conversation_state, reply

tables == <<vehicle_dimensions, mode_characteristics,
            delivery_modes, materials, waste_methods>>
vars == <<vehicle_dimensions, mode_characteristics,
          delivery_modes, materials, waste_methods, geopy_none, call,
          earlier, conversation_state, reply>>

(* earlier remembers one finished call (operation, arguments, outcome), so *)
(* that a later call can be compared with it; conversation_state and reply *)
(* belong to the chatbot front-end.                                        *)
chatbot == <<conversation_state, reply>>

-----------------------------------------------------------------------------
(* geopy.distance.geodesic(a, b).kilometers.  A coordinate is a pair       *)
(* <<lat, lon>> of degrees, None is <<>>.  geopy builds Point(None): the   *)
(* installed version either rejects it or reads it as latitude 0,          *)
(* longitude 0; geopy_none holds which.                                    *)

None == <<>>

PlanarKm(a, b) ==
    LET dlat == QSub(a[1], b[1])
        dlon == QSub(a[2], b[2])
    IN  QMul(QInt(100), QAdd(Q(Abs(dlat.n), dlat.d), Q(Abs(dlon.n), dlon.d)))

Geodesic(a, b) ==
    IF (a = None \/ b = None) /\ geopy_none = "raises" THEN Raise("TypeError")
    ELSE LET pa == IF a = None THEN <<QZero, QZero>> ELSE a
             pb == IF b = None THEN <<QZero, QZero>> ELSE b
         IN  Ok(PlanarKm(pa, pb))

-----------------------------------------------------------------------------
(* calculate_box_loading *)

LoadingCapacity(total, rows, columns, layers, utilization, remaining) ==
    [total_boxes |-> total, rows |-> rows, columns |-> columns,
     layers |-> layers, utilization_percentage |-> utilization,
     remaining_space |-> remaining]

BoxDimensions(l, w, h, v) == [length |-> l, width |-> w, height |-> h, volume |-> v]

AxisCountAtLeastOne(vehicle_side, box_side) ==
    IF PyInt(QDiv(vehicle_side, box_side)) < 1 THEN 1
    ELSE PyInt(QDiv(vehicle_side, box_side))

(* int(vehicle side / box side) *)
AxisCount(vehicle_side, box_side) == PyInt(QDiv(vehicle_side, box_side))

AxisCountsSwapped(vehicle_dim, box_dimensions) ==
    [rows    |-> AxisCount(vehicle_dim.length, box_dimensions.width),
     columns |-> AxisCount(vehicle_dim.width, box_dimensions.length),
     layers  |-> AxisCount(vehicle_dim.height, box_dimensions.height)]

AxisCounts(vehicle_dim, box_dimensions) ==
    [rows    |-> AxisCount(vehicle_dim.width, box_dimensions.width),
     columns |-> AxisCount(vehicle_dim.length, box_dimensions.length),
     layers  |-> AxisCount(vehicle_dim.height, box_dimensions.height)]

UtilizationFraction(total_box_volume, vehicle_volume) ==
    QDiv(total_box_volume, vehicle_volume)

Utilization(total_box_volume, vehicle_volume) ==
    QMul(QDiv(total_box_volume, vehicle_volume), QInt(100))

VehicleVolume(vehicle_dim) ==
    QMul(QMul(vehicle_dim.length, vehicle_dim.width), vehicle_dim.height)

CalculateBoxLoading(box_dimensions, vehicle_type) ==
    IF vehicle_type.na \/ vehicle_type.s \notin DOMAIN vehicle_dimensions
    THEN Raise("KeyError")
    ELSE IF QIsZero(box_dimensions.width) \/ QIsZero(box_dimensions.length)
            \/ QIsZero(box_dimensions.height)
    THEN Raise("ZeroDivisionError")
    ELSE
    LET Loaded(vehicle_dim, count, vehicle_volume) ==
            LET total_boxes == count.rows * count.columns * count.layers
                total_box_volume == QMul(QInt(total_boxes), box_dimensions.volume)
            IN  Ok(LoadingCapacity(total_boxes, count.rows, count.columns,
                                   count.layers,
                                   Utilization(total_box_volume, vehicle_volume),
                                   QSub(vehicle_volume, total_box_volume)))
    IN  Loaded(vehicle_dimensions[vehicle_type.s],
               AxisCounts(vehicle_dimensions[vehicle_type.s], box_dimensions),
               VehicleVolume(vehicle_dimensions[vehicle_type.s]))

-----------------------------------------------------------------------------
(* _select_best_vehicle *)

ModeMapping ==
    [m \in {"road", "sea", "air", "rail"} |->
        CASE m = "road" -> "Road"
          [] m = "sea"  -> "Water"
          [] m = "air"  -> "Air"
          [] m = "rail" -> "Rail"]

(* pd.to_numeric(..., errors='coerce').fillna(inf), compared: a <= b. *)
GhgLeq(a, b) ==
    IF b.na THEN TRUE ELSE IF a.na THEN FALSE ELSE QLeq(a.q, b.q)

(* Series.idxmin(): the first position holding the minimum. *)
IdxMin(rows) ==
    CHOOSE i \in 1..Len(rows) :
        /\ \A j \in 1..Len(rows) : GhgLeq(rows[i].ghg, rows[j].ghg)
        /\ \A j \in 1..(i - 1) : ~GhgLeq(rows[j].ghg, rows[i].ghg)

SelectBestVehicle(distance, weight, mode) ==
    IF mode \notin DOMAIN ModeMapping THEN Raise("KeyError")
    ELSE
    LET InMode(r) == StrContains(r.l1, ModeMapping[mode])
        transport_vehicles == SelectSeq(delivery_modes, InMode)
    IN  IF transport_vehicles = <<>> THEN Raise("ValueError")
        ELSE LET valid_vehicles == transport_vehicles
                 best_vehicle == valid_vehicles[IdxMin(valid_vehicles)]
             IN  Ok(best_vehicle.l2)

-----------------------------------------------------------------------------
(* _calculate_segment_time *)

Speeds ==
    [m \in {"road", "rail", "sea", "air"} |->
        CASE m = "road" -> 60
          [] m = "rail" -> 80
          [] m = "sea"  -> 30
          [] m = "air"  -> 800]

CalculateSegmentTime(distance, mode) ==
    IF mode \notin DOMAIN Speeds THEN Raise("KeyError")
    ELSE Ok(QDiv(distance, QInt(Speeds[mode])))

-----------------------------------------------------------------------------
(* _calculate_transport_emissions *)

CellEq(cell, name) == ~cell.na /\ ~name.na /\ cell.s = name.s

TransportEmissionsParameters == {"distance", "weight", "vehicle"}

CalculateTransportEmissions(distance, weight, vehicle) ==
    LET Matches(r) == CellEq(r.l3, vehicle) \/ CellEq(r.l2, vehicle)
        found == SelectSeq(delivery_modes, Matches)
    IN  IF found = <<>> THEN Raise("ValueError")
        ELSE LET vehicle_data == found[1]
                 uom == Lower(PyStr(vehicle_data.uom))
             IN  IF vehicle_data.ghg.na THEN Raise("ValueError")
                 ELSE LET ghg_per_unit == vehicle_data.ghg.q
                      IN  IF Contains(uom, "tonne.km")
                          THEN Ok(QMul(QMul(distance, ghg_per_unit),
                                       QDiv(weight, QInt(1000))))
                          ELSE IF Contains(uom, "km")
                          THEN Ok(QMul(distance, ghg_per_unit))
                          ELSE Ok(QMul(QMul(distance, ghg_per_unit), weight))

-----------------------------------------------------------------------------
(* _get_standardized_material *)

MaterialMapping ==
    [m \in {"cardboard", "paper", "mixed paper", "plastic", "plastic film",
            "plastic rigid", "metal", "aluminum", "steel", "glass", "wood"} |->
        CASE m = "cardboard"     -> "Paper and board: board"
          [] m = "paper"         -> "Paper and board: paper"
          [] m = "mixed paper"   -> "Paper and board: mixed"
          [] m = "plastic"       -> "Plastics: average plastics"
          [] m = "plastic film"  -> "Plastics: average plastic film"
          [] m = "plastic rigid" -> "Plastics: average plastic rigid"
          [] m = "metal"         -> "Metal: scrap metal"
          [] m = "aluminum"      -> "Metal: aluminium cans and foil (excl. forming)"
          [] m = "steel"         -> "Metal: steel cans"
          [] m = "glass"         -> "Glass"
          [] m = "wood"          -> "Wood"]

GetStandardizedMaterial(material) ==
    LET material_lower == Lower(material)
    IN  IF material_lower \in DOMAIN MaterialMapping
        THEN MaterialMapping[material_lower]
        ELSE material

-----------------------------------------------------------------------------
(* _calculate_packaging_emissions, _calculate_waste_emissions *)

MaterialRows(std_material) ==
    LET Matches(r) == StrContains(r.l2, std_material)
                      \/ StrContains(r.l3, std_material)
    IN  SelectSeq(materials, Matches)

(* weight * 0.1, in tonnes when the record's unit is tonne-based, times    *)
(* the factor.                                                             *)
PackagingMassEmissions(weight, record) ==
    LET packaging_weight == QMul(weight, Q(1, 10))
        uom == Lower(PyStr(record.uom))
        mass == IF Contains(uom, "tonne")
                THEN QDiv(packaging_weight, QInt(1000))
                ELSE packaging_weight
    IN  QMul(mass, record.ghg.q)

CalculatePackagingEmissions(weight, material) ==
    LET std_material == GetStandardizedMaterial(material)
        material_data == MaterialRows(std_material)
    IN  IF material_data = <<>> THEN Raise("ValueError")
        ELSE IF material_data[1].ghg.na THEN Raise("ValueError")
        ELSE Ok(PackagingMassEmissions(weight, material_data[1]))

PaperBoardWaste ==
    LET Matches(r) == \/ StrContains(r.l2, "Paper")
                      \/ StrContains(r.l2, "Board")
                      \/ StrContains(r.l3, "Paper")
                      \/ StrContains(r.l3, "Board")
    IN  SelectSeq(waste_methods, Matches)

GenericWaste ==
    LET Matches(r) == \/ StrContains(r.l2, "Waste")
                      \/ StrContains(r.l2, "Disposal")
    IN  SelectSeq(waste_methods, Matches)

CalculateWasteEmissionsStrict(weight, material) ==
    LET std_material == GetStandardizedMaterial(material)
        material_data == MaterialRows(std_material)
        waste_data == IF PaperBoardWaste # <<>> THEN PaperBoardWaste
                      ELSE GenericWaste
    IN  IF material_data = <<>> THEN Raise("ValueError")
        ELSE IF waste_data = <<>> THEN Raise("ValueError")
        ELSE IF waste_data[1].ghg.na THEN Raise("ValueError")
        ELSE Ok(PackagingMassEmissions(weight, waste_data[1]))

CalculateWasteEmissions(weight, material) ==
    LET std_material == GetStandardizedMaterial(material)
        material_data == MaterialRows(std_material)
        waste_data == IF PaperBoardWaste # <<>> THEN PaperBoardWaste
                      ELSE GenericWaste
    IN  IF material_data = <<>> THEN Raise("ValueError")
        ELSE IF waste_data = <<>> THEN Ok(QZero)
        ELSE IF waste_data[1].ghg.na THEN Ok(QZero)
        ELSE Ok(PackagingMassEmissions(weight, waste_data[1]))

-----------------------------------------------------------------------------
(* calculate_multi_modal_emissions *)

TransportSegment(mode, vehicle, distance, emissions) ==
    [mode |-> mode, vehicle |-> vehicle, distance |-> distance,
     emissions |-> emissions]

(* The accumulators before the loop. *)
LoopStart ==
    [total_emissions |-> QZero, total_distance |-> QZero,
     total_time |-> QZero, segments |-> <<>>]

(* The loop's call self._calculate_transport_emissions(distance=, weight=, *)
(* vehicle=, mode=): Python binds keyword arguments to the parameters of   *)
(* the callee and raises TypeError on a keyword the callee does not have.  *)
SegmentEmissionsCall(distance, weight, vehicle, mode) ==
    IF {"distance", "weight", "vehicle", "mode"} \subseteq TransportEmissionsParameters
    THEN CalculateTransportEmissions(distance, weight, vehicle)
    ELSE Raise("TypeError")

(* One pass of the loop body, from the accumulators acc. *)
SegmentStep(segment, weight, acc) ==
    LET Finish(distance, vehicle, segment_emissions, time) ==
            Ok([total_emissions |-> QAdd(acc.total_emissions, segment_emissions),
                total_distance |-> QAdd(acc.total_distance, distance),
                total_time |-> QAdd(acc.total_time, time),
                segments |-> Append(acc.segments,
                    TransportSegment(segment.mode, vehicle, distance,
                                     segment_emissions))])
        Timed(distance, vehicle, segment_emissions) ==
            Bind(CalculateSegmentTime(distance, segment.mode),
                 LAMBDA time : Finish(distance, vehicle, segment_emissions, time))
        Emitted(distance, vehicle) ==
            Bind(SegmentEmissionsCall(distance, weight, vehicle, segment.mode),
                 LAMBDA segment_emissions :
                     Timed(distance, vehicle, segment_emissions))
        Selected(distance) ==
            Bind(SelectBestVehicle(distance, weight, segment.mode),
                 LAMBDA vehicle : Emitted(distance, vehicle))
    IN  Bind(Geodesic(segment.origin, segment.destination), Selected)

RECURSIVE SegmentLoop(_, _, _)
SegmentLoop(route_segments, weight, acc) ==
    IF route_segments = <<>> THEN Ok(acc)
    ELSE Bind(SegmentStep(Head(route_segments), weight, acc),
              LAMBDA next : SegmentLoop(Tail(route_segments), weight, next))

(* Centimetres to metres, and the volume of the box. *)
BoxInfo(box_dimensions) ==
    LET length_m == QDiv(box_dimensions.length, QInt(100))
        width_m  == QDiv(box_dimensions.width, QInt(100))
        height_m == QDiv(box_dimensions.height, QInt(100))
        volume   == QMul(QMul(length_m, width_m), height_m)
    IN  BoxDimensions(length_m, width_m, height_m, volume)

DictSet(dict, key, value) ==
    [k \in (DOMAIN dict) \cup {key} |-> IF k = key THEN value ELSE dict[k]]

RECURSIVE LoadingLoop(_, _, _)
LoadingLoop(segments, box_info, loading_info) ==
    IF segments = <<>> THEN Ok(loading_info)
    ELSE Bind(CalculateBoxLoading(box_info, Head(segments).vehicle),
              LAMBDA capacity :
                  LoadingLoop(Tail(segments), box_info,
                      DictSet(loading_info, Head(segments).vehicle.s, capacity)))

EmissionResultNoWaste(acc, material, packaging_emissions, waste_emissions, box_info, loading_info) ==
    [segments |-> acc.segments,
     material |-> material,
     co2e |-> QAdd(acc.total_emissions, packaging_emissions),
     breakdown |-> [transport |-> acc.total_emissions,
                    packaging |-> packaging_emissions,
                    waste |-> waste_emissions],
     total_distance |-> acc.total_distance,
     total_time |-> acc.total_time,
     box_info |-> box_info,
     loading_info |-> loading_info]

EmissionResult(acc, material, packaging_emissions, waste_emissions, box_info, loading_info) ==
    [segments |-> acc.segments,
     material |-> material,
     co2e |-> QAdd(QAdd(acc.total_emissions, packaging_emissions), waste_emissions),
     breakdown |-> [transport |-> acc.total_emissions,
                    packaging |-> packaging_emissions,
                    waste |-> waste_emissions],
     total_distance |-> acc.total_distance,
     total_time |-> acc.total_time,
     box_info |-> box_info,
     loading_info |-> loading_info]

CalculateMultiModalEmissions(route_segments, weight, material, box_dimensions) ==
    LET Boxed(acc, packaging_emissions, waste_emissions) ==
            IF box_dimensions = None
            THEN Ok(EmissionResult(acc, material, packaging_emissions,
                                   waste_emissions, None, <<>>))
            ELSE Bind(LoadingLoop(acc.segments, BoxInfo(box_dimensions[1]), <<>>),
                      LAMBDA loading_info :
                          Ok(EmissionResult(acc, material, packaging_emissions,
                                            waste_emissions,
                                            <<BoxInfo(box_dimensions[1])>>,
                                            loading_info)))
        Wasted(acc, packaging_emissions) ==
            Bind(CalculateWasteEmissions(weight, material),
                 LAMBDA waste_emissions :
                     Boxed(acc, packaging_emissions, waste_emissions))
        Packaged(acc) ==
            Bind(CalculatePackagingEmissions(weight, material),
                 LAMBDA packaging_emissions : Wasted(acc, packaging_emissions))
    IN  Bind(SegmentLoop(route_segments, weight, LoopStart), Packaged)

-----
(* generate_route_options and its helpers *)

Segment(mode, origin, destination) ==
    [mode |-> mode, origin |-> origin, destination |-> destination]

(* _find_nearest_port, _find_nearest_airport: bodies are  pass. *)
FindNearestPort(location) == None
FindNearestAirport(location) == None

CalculateMidpoint(point1, point2) ==
    <<QDiv(QAdd(point1[1], point2[1]), QInt(2)),
      QDiv(QAdd(point1[2], point2[2]), QInt(2))>>

(* The three helper loops: the sum over the segments of the distance, of  *)
(* distance / speed or of distance * emission_factor, or the first error    *)
(* geodesic raises.                                                        *)
RouteTerm(kind, mode, distance) ==
    CASE kind = "time" -> QDiv(distance, mode_characteristics[mode].speed)
      [] kind = "distance" -> distance
      [] kind = "emissions" ->
             QMul(distance, mode_characteristics[mode].emission_factor)

RECURSIVE RouteSum(_, _, _)
RouteSum(segments, kind, total) ==
    IF segments = <<>> THEN Ok(total)
    ELSE Bind(Geodesic(Head(segments).origin, Head(segments).destination),
              LAMBDA distance :
                  RouteSum(Tail(segments), kind,
                           QAdd(total, RouteTerm(kind, Head(segments).mode, distance))))

CalculateRouteTime(segments)     == RouteSum(segments, "time", QZero)
CalculateRouteDistance(segments) == RouteSum(segments, "distance", QZero)
EstimateRouteEmissions(segments) == RouteSum(segments, "emissions", QZero)

RouteOption(name, segments, cost_factor) ==
    Bind(CalculateRouteTime(segments), LAMBDA total_time :
    Bind(CalculateRouteDistance(segments), LAMBDA total_distance :
    Bind(EstimateRouteEmissions(segments), LAMBDA estimated_emissions :
        Ok([name |-> name, segments |-> segments,
            total_time |-> total_time,
            total_distance |-> total_distance,
            estimated_emissions |-> estimated_emissions,
            cost_factor |-> cost_factor]))))

EcoCostFactorOfSea == Q(6, 10)

EcoCostFactor == Q(8, 10)
StandardCostFactor == Q(10, 10)
ExpressCostFactor == Q(25, 10)

GenerateEcoRoute(origin, destination, distance) ==
    LET segments ==
            IF QLt(distance, QInt(800))
            THEN <<Segment("rail", origin, destination)>>
            ELSE <<Segment("road", origin, FindNearestPort(origin)),
                   Segment("sea", FindNearestPort(origin),
                           FindNearestPort(destination)),
                   Segment("road", FindNearestPort(destination), destination)>>
    IN  RouteOption("Eco-Friendly Route", segments, EcoCostFactor)

GenerateStandardRouteInclusive(origin, destination, distance) ==
    LET midpoint == CalculateMidpoint(origin, destination)
        segments ==
            IF QLeq(distance, QInt(500))
            THEN <<Segment("road", origin, destination)>>
            ELSE <<Segment("road", origin, midpoint),
                   Segment("rail", midpoint, destination)>>
    IN  RouteOption("Standard Route", segments, StandardCostFactor)

GenerateStandardRoute(origin, destination, distance) ==
    LET midpoint == CalculateMidpoint(origin, destination)
        segments ==
            IF QLt(distance, QInt(500))
            THEN <<Segment("road", origin, destination)>>
            ELSE <<Segment("road", origin, midpoint),
                   Segment("rail", midpoint, destination)>>
    IN  RouteOption("Standard Route", segments, StandardCostFactor)

GenerateExpressRoute(origin, destination, distance) ==
    LET segments ==
            IF QLt(distance, QInt(300))
            THEN <<Segment("road", origin, destination)>>
            ELSE <<Segment("road", origin, FindNearestAirport(origin)),
                   Segment("air", FindNearestAirport(origin),
                           FindNearestAirport(destination)),
                   Segment("road", FindNearestAirport(destination), destination)>>
    IN  RouteOption("Express Route", segments, ExpressCostFactor)

GenerateRouteOptions(origin, destination, weight) ==
    Bind(Geodesic(origin, destination), LAMBDA distance :
    Bind(GenerateEcoRoute(origin, destination, distance), LAMBDA eco :
    Bind(GenerateStandardRoute(origin, destination, distance), LAMBDA standard :
    Bind(GenerateExpressRoute(origin, destination, distance), LAMBDA express :
        Ok([eco |-> eco, standard |-> standard, express |-> express])))))

-----
(* Reference tables the engine may have been loaded with.                  *)

DeliveryFull ==
    <<Row(Txt("Road"), Txt("Vans"), Txt("Class I (up to 1.305 tonnes)"),
          Txt("tonne.km"), Num(Q(8, 10))),
      Row(Txt("Road"), Txt("Vans"), Txt("Class II (1.305 to 1.74 tonnes)"),
          Txt("tonne.km"), Num(Q(6, 10))),
      Row(Txt("Road"), Txt("Vans"), Txt("Class III (1.74 to 3.5 tonnes)"),
          Txt("tonne.km"), Num(Q(5, 10))),
      Row(Txt("Road"), Txt("HGV (all diesel)"), NaN, Txt("km"), Num(Q(9, 10))),
      Row(Txt("Rail"), Txt("Freight train"), NaN, Txt("tonne.km"), Num(Q(3, 100))),
      Row(Txt("Water"), Txt("Cargo ship"), NaN, Txt("tonne.km"), Num(Q(1, 100))),
      Row(Txt("Air"), Txt("Freight flights"), NaN, Txt("tonne.km"), Num(QInt(1)))>>

DeliveryProfiles ==
    <<Row(Txt("WTT - road vehicles"), Txt("Van - Class I"), NaN,
          Txt("tonne.km"), Num(Q(1, 10))),
      Row(Txt("Road vehicles"), Txt("Van - Class III"), NaN,
          Txt("tonne.km"), Num(Q(5, 10))),
      Row(Txt("Road vehicles"), Txt("Van - Class I"), NaN,
          Txt("tonne.km"), Num(Q(5, 10))),
      Row(Txt("Road vehicles"), Txt("Truck - Large"), NaN, Txt("km"), Num(Q(7, 10))),
      Row(Txt("Railways"), Txt("Container - 40ft"), NaN, Txt("tonne.km"),
          Num(Q(3, 100))),
      Row(Txt("Water freight"), Txt("Container - 20ft"), NaN, Txt("kg"),
          Num(Q(1, 100))),
      Row(Txt("AIR FREIGHT"), Txt("Aircraft Container"), NaN, NaN, Num(QInt(1)))>>

DeliverySparse ==
    <<Row(Txt("Road"), Txt("Vans"), Txt("Class I (up to 1.305 tonnes)"),
          Txt("tonne.km"), NaNum),
      Row(Txt("Road"), NaN, NaN, Txt("km"), NaNum),
      Row(NaN, Txt("Rail"), NaN, Txt("tonne.km"), Num(Q(3, 100))),
      Row(Txt("Water"), Txt("Cargo ship"), NaN, Txt("tonne.km"), Num(Q(1, 100)))>>

MaterialsFull ==
    <<Row(Txt("Material use"), Txt("Paper"), Txt("Paper and board: board"),
          Txt("tonnes"), Num(QInt(800))),
      Row(Txt("Material use"), Txt("Paper"), Txt("Paper and board: paper"),
          Txt("tonnes"), Num(QInt(900))),
      Row(Txt("Material use"), Txt("Plastic"), Txt("Plastics: average plastics"),
          Txt("kg"), Num(QInt(3))),
      Row(Txt("Material use"), Txt("Metal"), Txt("Metal: scrap metal"),
          Txt("tonnes"), NaNum)>>

MaterialsSparse ==
    <<Row(Txt("Material use"), Txt("PLASTICS: AVERAGE PLASTICS"), NaN,
          NaN, Num(Q(5, 2))),
      Row(Txt("Material use"), Txt("Paper"), Txt("Paper and board: board"),
          Txt("tonnes"), NaNum)>>

WasteFull ==
    <<Row(Txt("Waste disposal"), Txt("Refuse"), Txt("Commercial waste"),
          Txt("tonnes"), Num(QInt(450))),
      Row(Txt("Waste disposal"), Txt("Paper"), Txt("Paper and board: board"),
          Txt("tonnes"), Num(QInt(20)))>>

WasteGeneric ==
    <<Row(Txt("Waste disposal"), Txt("Glass"), NaN, Txt("tonnes"), Num(QInt(9))),
      Row(Txt("Waste disposal"), Txt("Household waste"), NaN, Txt("kg"),
          Num(Q(1, 2)))>>

WasteNone ==
    <<Row(Txt("Waste disposal"), Txt("Glass"), NaN, Txt("tonnes"), Num(QInt(9)))>>

DeliveryEdge ==
    <<Row(Txt("Road"), Txt("Vans"), NaN, Txt("km"), Num(Q(9, 10))),
      Row(Txt("Road"), Txt("Light goods"), Txt("Vans"), Txt("tonne.km"),
          Num(Q(2, 10))),
      Row(Txt("Rail"), Txt("Tram"), NaN, Txt("km"), NaNum),
      Row(Txt("Rail"), Txt("Freight train"), NaN, Txt("Tonne.KM"), Num(Q(3, 100))),
      Row(Txt("Rail"), Txt("Night train"), NaN, Txt("tonne.km"), Num(Q(3, 100))),
      Row(Txt("WTT- delivery vehs & freight: water"), Txt("WTT cargo ship"), NaN,
          Txt("tonne.km"), Num(Q(1, 1000))),
      Row(Txt("Water"), Txt("Cargo ship"), NaN, Txt("tonne.km"), Num(Q(1, 100)))>>

MaterialsEdge ==
    <<Row(Txt("Material use"), Txt("Metal"),
          Txt("Metal: aluminium cans and foil (excl. forming)"),
          Txt("tonnes"), Num(QInt(9000))),
      Row(Txt("Material use"), Txt("Plastic"), Txt("Plastics: average plastics"),
          Txt("kg"), Num(QInt(3))),
      Row(Txt("Material use"), Txt("Paper"), Txt("Paper and board: board"),
          Txt("Tonnes"), Num(QInt(800)))>>

WasteEdge ==
    <<Row(Txt("Waste disposal"), Txt("Refuse"), Txt("Commercial waste"),
          Txt("tonnes"), Num(QInt(450))),
      Row(Txt("Waste disposal"), Txt("Paper"), Txt("Paper and board: mixed"),
          Txt("tonnes"), NaNum),
      Row(Txt("Waste disposal"), Txt("Paper"), Txt("Paper and board: board"),
          Txt("tonnes"), Num(QInt(20)))>>

Worlds ==
    {[delivery |-> DeliveryFull, materials |-> MaterialsFull, waste |-> WasteFull],
     [delivery |-> DeliveryProfiles, materials |-> MaterialsFull,
      waste |-> WasteGeneric],
     [delivery |-> DeliverySparse, materials |-> MaterialsSparse,
      waste |-> WasteNone],
     [delivery |-> DeliveryEdge, materials |-> MaterialsEdge, waste |-> WasteEdge]}

-----------------------------------------------------------------------------
(* Inputs of the calls. *)

MaxSegments == 2

Point(lat, lon) == <<QInt(lat), QInt(lon)>>

Points == {Point(0, 0), Point(2, 0), Point(3, 0), Point(5, 0), Point(8, 0),
           Point(9, 0), Point(4, 1)}

Weights == {QInt(-5), QZero, QInt(1305), QInt(4000)}

VanWeights == {QInt(1305), QInt(1306), QInt(1740), QInt(1741), QInt(3500),
               QInt(4000)}

Modes == {"road", "rail", "sea", "air", "bike"}

MaterialNames == {"cardboard", "Plastic", "metal", "aluminum",
                  "Paper and board: paper", "unobtainium"}

VehicleNames ==
    {Txt("Vans"), Txt("Class I (up to 1.305 tonnes)"), Txt("HGV (all diesel)"),
     Txt("Freight train"), Txt("Cargo ship"), Txt("Container - 20ft"),
     Txt("Aircraft Container"), Txt("Zeppelin"), NaN}

Distances == {QZero, QInt(200), QInt(900)}

Legs ==
    {[origin |-> Point(0, 0), destination |-> Point(2, 0), mode |-> "road"],
     [origin |-> Point(2, 0), destination |-> Point(5, 0), mode |-> "rail"],
     [origin |-> Point(5, 0), destination |-> Point(9, 0), mode |-> "sea"],
     [origin |-> Point(0, 0), destination |-> Point(9, 0), mode |-> "air"],
     [origin |-> Point(0, 0), destination |-> Point(2, 0), mode |-> "bike"]}

SegmentLists == UNION {[1..n -> Legs] : n \in 0..MaxSegments}

BoxInputs ==
    {None,
     <<[length |-> QInt(60), width |-> QInt(40), height |-> QInt(40)]>>}

BoxSides == {Q(-4, 10), QZero, Q(4, 10), Q(6, 10), QInt(3)}

(* The volume that belongs to the sides, and one that does not. *)
BoxVolumes(l, w, h) == {QMul(QMul(l, w), h), QMul(Q(5, 4), QMul(QMul(l, w), h))}

VehicleTypes == {Txt(v) : v \in (DOMAIN VehicleDimensions) \cup {"Vans"}}

-----------------------------------------------------------------------------
(* Construction, and the calls a front-end makes.  A call runs to its end  *)
(* before the next one starts: call holds its arguments and outcome until  *)
(* the caller takes them.                                                  *)

Idle == [op |-> "idle", args |-> <<>>, out |-> <<>>]

Init ==
    /\ vehicle_dimensions = VehicleDimensions
    /\ mode_characteristics = ModeCharacteristics
    /\ \E w \in Worlds :
          /\ delivery_modes = w.delivery
          /\ materials = w.materials
          /\ waste_methods = w.waste
    /\ geopy_none \in {"raises", "origin"}
    /\ call = Idle
    /\ earlier = None
    /\ conversation_state = <<>>
    /\ reply = None

CallCalculateBoxLoading ==
    /\ call = Idle
    /\ \E l \in BoxSides, w \in BoxSides, h \in BoxSides, t \in VehicleTypes :
          \E v \in BoxVolumes(l, w, h) :
             call' = [op |-> "calculate_box_loading",
                      args |-> [box_dimensions |-> BoxDimensions(l, w, h, v),
                                vehicle_type |-> t],
                      out |-> CalculateBoxLoading(BoxDimensions(l, w, h, v), t)]
    /\ UNCHANGED <<tables, geopy_none, earlier, chatbot>>

CallCalculateMultiModalEmissions ==
    /\ call = Idle
    /\ \E segs \in SegmentLists, w \in Weights, m \in MaterialNames,
          box \in BoxInputs :
          call' = [op |-> "calculate_multi_modal_emissions",
                   args |-> [route_segments |-> segs, weight |-> w,
                             material |-> m, box_dimensions |-> box],
                   out |-> CalculateMultiModalEmissions(segs, w, m, box)]
    /\ UNCHANGED <<tables, geopy_none, earlier, chatbot>>

CallGenerateRouteOptions ==
    /\ call = Idle
    /\ \E o \in Points, d \in Points, w \in Weights :
          call' = [op |-> "generate_route_options",
                   args |-> [origin |-> o, destination |-> d, weight |-> w],
                   out |-> GenerateRouteOptions(o, d, w)]
    /\ UNCHANGED <<tables, geopy_none, earlier, chatbot>>

(* The selection writing its GHG_numeric column into the sheet itself. *)
CallSelectBestVehicleInPlace ==
    /\ call = Idle
    /\ \E l \in Legs, w \in VanWeights \cup Weights :
          call' = [op |-> "_select_best_vehicle",
                   args |-> [distance |-> PlanarKm(l.origin, l.destination),
                             weight |-> w, mode |-> l.mode],
                   out |-> SelectBestVehicle(PlanarKm(l.origin, l.destination),
                                             w, l.mode)]
    /\ delivery_modes' =
           [i \in DOMAIN delivery_modes |->
               [delivery_modes[i] EXCEPT !.ghg =
                   IF @.na THEN Num(QInt(1000000)) ELSE @]]
    /\ UNCHANGED <<vehicle_dimensions, mode_characteristics, materials,
                   waste_methods, geopy_none, earlier, chatbot>>

CallSelectBestVehicle ==
    /\ call = Idle
    /\ \E l \in Legs, w \in VanWeights \cup Weights :
          call' = [op |-> "_select_best_vehicle",
                   args |-> [distance |-> PlanarKm(l.origin, l.destination),
                             weight |-> w, mode |-> l.mode],
                   out |-> SelectBestVehicle(PlanarKm(l.origin, l.destination),
                                             w, l.mode)]
    /\ UNCHANGED <<tables, geopy_none, earlier, chatbot>>

CallCalculateTransportEmissions ==
    /\ call = Idle
    /\ \E d \in Distances, w \in Weights, v \in VehicleNames :
          call' = [op |-> "_calculate_transport_emissions",
                   args |-> [distance |-> d, weight |-> w, vehicle |-> v],
                   out |-> CalculateTransportEmissions(d, w, v)]
    /\ UNCHANGED <<tables, geopy_none, earlier, chatbot>>

CallCalculatePackagingEmissions ==
    /\ call = Idle
    /\ \E w \in Weights, m \in MaterialNames :
          call' = [op |-> "_calculate_packaging_emissions",
                   args |-> [weight |-> w, material |-> m],
                   out |-> CalculatePackagingEmissions(w, m)]
    /\ UNCHANGED <<tables, geopy_none, earlier, chatbot>>

CallCalculateWasteEmissions ==
    /\ call = Idle
    /\ \E w \in Weights, m \in MaterialNames :
          call' = [op |-> "_calculate_waste_emissions",
                   args |-> [weight |-> w, material |-> m],
                   out |-> CalculateWasteEmissions(w, m)]
    /\ UNCHANGED <<tables, geopy_none, earlier, chatbot>>

Return ==
    /\ call # Idle
    /\ call' = Idle
    /\ UNCHANGED <<tables, geopy_none, earlier, chatbot>>

Next ==
    \/ CallCalculateBoxLoading
    \/ CallCalculateMultiModalEmissions
    \/ CallGenerateRouteOptions
    \/ CallSelectBestVehicle
    \/ CallCalculateTransportEmissions
    \/ CallCalculatePackagingEmissions
    \/ CallCalculateWasteEmissions
    \/ Return

Spec == Init /\ [][Next]_vars

-----------------------------------------------------------------------------
(* Calls repeated.  The methods of EmissionCalculator, a call of one of    *)
(* them by name, and a front-end that keeps the outcome of one call and    *)
(* makes the same call again after other calls.                            *)

EmissionCalculatorMethods ==
    {"__init__", "_load_data", "calculate_box_loading",
     "calculate_multi_modal_emissions", "_select_best_vehicle",
     "_calculate_segment_time", "_calculate_transport_emissions",
     "_get_standardized_material", "_calculate_packaging_emissions",
     "_calculate_waste_emissions", "generate_route_options",
     "_generate_eco_route", "_generate_standard_route",
     "_generate_express_route", "_calculate_midpoint", "_calculate_route_time",
     "_calculate_route_distance", "_estimate_route_emissions",
     "_find_nearest_port", "_find_nearest_airport"}

Apply(op, args) ==
    IF op \notin EmissionCalculatorMethods THEN Raise("AttributeError")
    ELSE CASE op = "calculate_box_loading" ->
                CalculateBoxLoading(args.box_dimensions, args.vehicle_type)
           [] op = "calculate_multi_modal_emissions" ->
                CalculateMultiModalEmissions(args.route_segments, args.weight,
                                             args.material, args.box_dimensions)
           [] op = "generate_route_options" ->
                GenerateRouteOptions(args.origin, args.destination, args.weight)
           [] op = "_select_best_vehicle" ->
                SelectBestVehicle(args.distance, args.weight, args.mode)
           [] op = "_calculate_transport_emissions" ->
                CalculateTransportEmissions(args.distance, args.weight, args.vehicle)
           [] op = "_calculate_packaging_emissions" ->
                CalculatePackagingEmissions(args.weight, args.material)
           [] op = "_calculate_waste_emissions" ->
                CalculateWasteEmissions(args.weight, args.material)

RoadLeg == [origin |-> Point(0, 0), destination |-> Point(2, 0), mode |-> "road"]

CmBox == <<[length |-> QInt(60), width |-> QInt(40), height |-> QInt(40)]>>

RepeatedCalls ==
    {[op |-> "calculate_box_loading",
      args |-> [box_dimensions |-> BoxDimensions(Q(6, 10), Q(4, 10), Q(4, 10),
                                                 Q(96, 1000)),
                vehicle_type |-> Txt(v)]] : v \in {"Van - Class I", "Vans"}}
    \cup
    {[op |-> "calculate_multi_modal_emissions",
      args |-> [route_segments |-> segs, weight |-> QInt(1305),
                material |-> m, box_dimensions |-> box]] :
        segs \in {<<>>, <<RoadLeg>>}, m \in {"Plastic", "unobtainium"},
        box \in {None, CmBox}}
    \cup
    {[op |-> "generate_route_options",
      args |-> [origin |-> Point(0, 0), destination |-> d, weight |-> QInt(1305)]] :
        d \in {Point(2, 0), Point(9, 0)}}
    \cup
    {[op |-> "_select_best_vehicle",
      args |-> [distance |-> QInt(200), weight |-> QInt(1305), mode |-> m]] :
        m \in {"road", "bike"}}
    \cup
    {[op |-> "_calculate_transport_emissions",
      args |-> [distance |-> QInt(200), weight |-> QInt(1305), vehicle |-> Txt(v)]] :
        v \in {"Vans", "Class I (up to 1.305 tonnes)", "Zeppelin"}}
    \cup
    {[op |-> o, args |-> [weight |-> QInt(1305), material |-> m]] :
        o \in {"_calculate_packaging_emissions", "_calculate_waste_emissions"},
        m \in {"cardboard", "unobtainium"}}

(* The outcomes seen since the remembered call. *)
Between(c) ==
    IF earlier = None THEN None
    ELSE <<[earlier[1] EXCEPT !.between =
               @ \cup {IF c.out.ok THEN "returned" ELSE "failed"}]>>

(* A call made through a sheet that the call itself has rewritten. *)
RepeatCallInPlace ==
    /\ call = Idle
    /\ \E c \in RepeatedCalls :
          /\ call' = [op |-> c.op, args |-> c.args, out |-> Apply(c.op, c.args)]
          /\ earlier' = Between(call')
    /\ delivery_modes' =
           [i \in DOMAIN delivery_modes |->
               [delivery_modes[i] EXCEPT !.ghg =
                   IF @.na THEN Num(QInt(1000000)) ELSE @]]
    /\ UNCHANGED <<vehicle_dimensions, mode_characteristics, materials,
                   waste_methods, geopy_none, chatbot>>

RepeatCall ==
    /\ call = Idle
    /\ \E c \in RepeatedCalls :
          /\ call' = [op |-> c.op, args |-> c.args, out |-> Apply(c.op, c.args)]
          /\ earlier' = Between(call')
    /\ UNCHANGED <<tables, geopy_none, chatbot>>

(* The caller keeps the outcome of the call it has just made. *)
Remember ==
    /\ call # Idle
    /\ earlier = None
    /\ earlier' = <<[op |-> call.op, args |-> call.args, out |-> call.out,
                     between |-> {}]>>
    /\ UNCHANGED <<tables, geopy_none, call, chatbot>>

NextRepeat ==
    \/ RepeatCall
    \/ Remember
    \/ Return

SpecRepeat == Init /\ [][NextRepeat]_vars

-----------------------------------------------------------------------------
(* The chatbot (chatbot.py): strings and their conversions.                *)

Ch(s, i) == SubSeq(s, i, i)

Digits == "0123456789"

IsDigit(c) == \E v \in 1..Len(Digits) : Ch(Digits, v) = c

DigitValue(c) == (CHOOSE v \in 1..Len(Digits) : Ch(Digits, v) = c) - 1

(* str.strip(), for blanks. *)
RECURSIVE Strip(_)
Strip(s) ==
    IF s = "" THEN ""
    ELSE IF Ch(s, 1) = " " THEN Strip(SubSeq(s, 2, Len(s)))
    ELSE IF Ch(s, Len(s)) = " " THEN Strip(SubSeq(s, 1, Len(s) - 1))
    ELSE s

(* str.replace(old, ''), for a non-empty old. *)
RECURSIVE RemoveAll(_, _)
RemoveAll(s, old) ==
    IF Len(s) < Len(old) THEN s
    ELSE IF SubSeq(s, 1, Len(old)) = old
    THEN RemoveAll(SubSeq(s, Len(old) + 1, Len(s)), old)
    ELSE Ch(s, 1) \o RemoveAll(SubSeq(s, 2, Len(s)), old)

(* The first position from i on that holds no digit. *)
RECURSIVE DigitsEnd(_, _)
DigitsEnd(s, i) ==
    IF i <= Len(s) /\ IsDigit(Ch(s, i)) THEN DigitsEnd(s, i + 1) ELSE i

RECURSIVE BlanksEnd(_, _)
BlanksEnd(s, i) ==
    IF i <= Len(s) /\ Ch(s, i) = " " THEN BlanksEnd(s, i + 1) ELSE i

RECURSIVE DigitsValue(_)
DigitsValue(s) ==
    IF s = "" THEN 0
    ELSE 10 * DigitsValue(SubSeq(s, 1, Len(s) - 1)) + DigitValue(Ch(s, Len(s)))

RECURSIVE Pow10(_)
Pow10(k) == IF k = 0 THEN 1 ELSE 10 * Pow10(k - 1)

(* Floats that are no rationals. *)
FloatNaN == [n |-> 0, d |-> 0]
FloatInf == [n |-> 1, d |-> 0]
FloatNegInf == [n |-> -1, d |-> 0]

(* x <= 0 on floats: false for nan. *)
FloatLeqZero(x) == x # FloatNaN /\ x.n <= 0

(* The value of an unsigned decimal  digits [. digits]  with a digit on    *)
(* one side of the point at least; the point is at position dot (or past   *)
(* the end).                                                               *)
DecimalValue(s, dot) ==
    LET whole == SubSeq(s, 1, dot - 1)
        frac  == SubSeq(s, dot + 1, Len(s))
    IN  Q(DigitsValue(whole) * Pow10(Len(frac)) + DigitsValue(frac), Pow10(Len(frac)))

IsDecimal(s) ==
    LET dot == DigitsEnd(s, 1)
    IN  /\ s # "" /\ s # "."
        /\ \/ dot = Len(s) + 1
           \/ Ch(s, dot) = "." /\ DigitsEnd(s, dot + 1) = Len(s) + 1

(* float(s) for a sign, a decimal, nan, inf and infinity; other forms of   *)
(* a float (exponents, underscores) are not among the messages below.      *)
PyFloat(text) ==
    LET s == Strip(text)
        signed == s # "" /\ Ch(s, 1) \in {"-", "+"}
        sign == IF s # "" /\ Ch(s, 1) = "-" THEN -1 ELSE 1
        body == IF signed THEN SubSeq(s, 2, Len(s)) ELSE s
    IN  IF Lower(body) = "nan" THEN Ok(FloatNaN)
        ELSE IF Lower(body) \in {"inf", "infinity"}
        THEN Ok(IF sign = 1 THEN FloatInf ELSE FloatNegInf)
        ELSE IF IsDecimal(body)
        THEN Ok(QMul(QInt(sign), DecimalValue(body, DigitsEnd(body, 1))))
        ELSE Raise("ValueError")

(* One coordinate of coord_pattern: an optional minus, digits, an optional *)
(* point, digits or none.  The position after the match that starts at i,  *)
(* or 0.                                                                   *)
CoordinateEnd(s, i) ==
    LET first == IF i <= Len(s) /\ Ch(s, i) = "-" THEN i + 1 ELSE i
        whole == DigitsEnd(s, first)
        frac  == IF whole <= Len(s) /\ Ch(s, whole) = "." THEN whole + 1 ELSE whole
    IN  IF whole = first THEN 0 ELSE DigitsEnd(s, frac)

(* re.match of coord_pattern: a coordinate, a comma, blanks, a coordinate  *)
(* and the end of the string; the float of the two groups, or None.        *)
MatchCoordinates(s) ==
    LET end1 == CoordinateEnd(s, 1)
        start2 == BlanksEnd(s, end1 + 1)
        end2 == CoordinateEnd(s, start2)
    IN  IF end1 = 0 \/ end1 > Len(s) THEN None
        ELSE IF Ch(s, end1) # "," THEN None
        ELSE IF end2 # Len(s) + 1 THEN None
        ELSE <<<<PyFloat(SubSeq(s, 1, end1 - 1)).val,
                 PyFloat(SubSeq(s, start2, Len(s))).val>>>>

(* _parse_location: coordinates as written, else what the geocoding       *)
(* service answers (a place or nothing; a failed request is nothing).      *)
ParseLocation(location_str, geocoded) ==
    IF MatchCoordinates(location_str) # None THEN MatchCoordinates(location_str)
    ELSE geocoded

-----------------------------------------------------------------------------
(* The chatbot: sessions and handle_message.                               *)

MaterialsMapping ==
    [k \in {"1", "cardboard", "board", "2", "plastic", "3", "paper", "4",
            "mixed", "mixed materials"} |->
        CASE k \in {"1", "cardboard", "board"} -> "Paper and board: board"
          [] k \in {"2", "plastic"} -> "Plastics: average plastics"
          [] k \in {"3", "paper"} -> "Paper and board: paper"
          [] k \in {"4", "mixed", "mixed materials"} -> "Paper and board: mixed"]

InitializeConversation(states, session_id) ==
    [states |-> DictSet(states, session_id,
                        [stage |-> "welcome", data |-> <<>>, origin |-> None,
                         destination |-> None, weight |-> None,
                         material |-> None]),
     reply |-> "welcome"]

Stay(states, text) == [states |-> states, reply |-> text]

(* _calculate_and_respond: everything between try and except. *)
CalculateResult(state) ==
    IF \E key \in {"origin", "destination", "weight", "material"} : state[key] = None
    THEN Raise("ValueError")
    ELSE Bind(Geodesic(state.origin[1], state.destination[1]), LAMBDA distance :
              Apply("calculate_emissions",
                    [origin |-> state.origin[1], destination |-> state.destination[1],
                     weight |-> state.weight[1], material |-> state.material[1]]))

CalculateAndRespond(states, session_id) ==
    IF CalculateResult(states[session_id]).ok
    THEN [states |-> [states EXCEPT ![session_id].stage = "calculation"],
          reply |-> "results"]
    ELSE Stay(states, "calculation error")

HandleMessageIn(states, session_id, text, geocoded) ==
    LET state == states[session_id]
        message == Strip(text)
        location == ParseLocation(message, geocoded)
        weight == PyFloat(Strip(RemoveAll(message, "kg")))
        material_input == Strip(Lower(message))
    IN  CASE state.stage = "welcome" ->
               IF Lower(message) \in {"yes", "y", "sure", "okay"}
               THEN [states |-> [states EXCEPT ![session_id].stage = "origin"],
                     reply |-> "ask origin"]
               ELSE Stay(states, "say start")
          [] state.stage = "origin" ->
               IF location # None
               THEN [states |-> [states EXCEPT ![session_id].origin = location,
                                               ![session_id].stage = "destination"],
                     reply |-> "ask destination"]
               ELSE Stay(states, "location not found")
          [] state.stage = "destination" ->
               IF location # None
               THEN [states |-> [states EXCEPT ![session_id].destination = location,
                                               ![session_id].stage = "weight"],
                     reply |-> "ask weight"]
               ELSE Stay(states, "location not found")
          [] state.stage = "weight" ->
               IF ~weight.ok THEN Stay(states, "weight not a number")
               ELSE IF FloatLeqZero(weight.val)
               THEN Stay(states, "weight not positive")
               ELSE [states |-> [states EXCEPT ![session_id].weight = <<weight.val>>,
                                               ![session_id].stage = "material"],
                     reply |-> "ask material"]
          [] state.stage = "material" ->
               IF material_input \in DOMAIN MaterialsMapping
               THEN CalculateAndRespond(
                        [states EXCEPT ![session_id].material =
                                           <<MaterialsMapping[material_input]>>],
                        session_id)
               ELSE Stay(states, "material not recognized")
          [] state.stage = "calculation" ->
               IF Lower(message) \in {"restart", "new", "start over"}
               THEN InitializeConversation(states, session_id)
               ELSE IF Lower(message) \in {"1", "yes", "calculate", "another"}
               THEN InitializeConversation(states, session_id)
               ELSE IF Lower(message) \in {"2", "recommendations", "eco"}
               THEN Stay(states, "recommendations")
               ELSE IF Lower(message) \in {"3", "end", "quit", "exit"}
               THEN Stay(states, "goodbye")
               ELSE Stay(states, "options")
          [] OTHER -> Stay(states, "None")

HandleMessageOutcome(states, session_id, text, geocoded) ==
    IF session_id \notin DOMAIN states
    THEN InitializeConversation(states, session_id)
    ELSE HandleMessageIn(states, session_id, text, geocoded)

SessionIds == {"a", "b"}

Messages ==
    {" Yes", "51.5, -0.1", "Paris", "1305kg", "-3", "nan", "heavy", "2",
     "Cardboard", "restart"}

(* What the geocoding service may answer to a name. *)
GeocodeAnswers == {None, <<<<Q(4885, 100), Q(235, 100)>>>>}

HandleMessage ==
    /\ \E session_id \in SessionIds, text \in Messages, geocoded \in GeocodeAnswers :
          LET outcome == HandleMessageOutcome(conversation_state, session_id,
                                              text, geocoded)
          IN  /\ conversation_state' = outcome.states
              /\ reply' = <<[to |-> session_id, text |-> outcome.reply]>>
    /\ UNCHANGED <<tables, geopy_none, call, earlier>>

NextChat == HandleMessage

(* The chatbot's own calculator, constructed on one data directory. *)
InitChat ==
    /\ Init
    /\ delivery_modes = DeliveryFull
    /\ geopy_none = "raises"

SpecChat == InitChat /\ [][NextChat]_vars

-----------------------------------------------------------------------------
(* Properties.                                                             *)

Returned(op) == call.op = op /\ call.out.ok
Failed(op)   == call.op = op /\ ~call.out.ok

Positive(x) == x.n > 0

RECURSIVE SumEmissions(_)
SumEmissions(segments) ==
    IF segments = <<>> THEN QZero
    ELSE QAdd(Head(segments).emissions, SumEmissions(Tail(segments)))

(* C1: every result of calculate_multi_modal_emissions has                 *)
(* breakdown.transport + breakdown.packaging + breakdown.waste = co2e      *)
(* exactly, and breakdown.transport is the sum of the emissions of the     *)
(* returned segments.                                                      *)
C1_BreakdownSumsToTotal ==
    Returned("calculate_multi_modal_emissions") =>
        LET r == call.out.val
        IN  /\ QAdd(QAdd(r.breakdown.transport, r.breakdown.packaging),
                    r.breakdown.waste) = r.co2e
            /\ r.breakdown.transport = SumEmissions(r.segments)

C1_Witness ==
    /\ Returned("calculate_multi_modal_emissions")
    /\ Positive(call.args.weight)
    /\ Positive(call.out.val.breakdown.packaging)
    /\ Positive(call.out.val.breakdown.waste)

(* C2: an entry point called with weight <= 0 fails (with InvalidInput)    *)
(* and returns no result.  Stated by its weakest part: the call fails.     *)
C2_NonPositiveWeightFails ==
    (/\ call.op \in {"calculate_multi_modal_emissions", "generate_route_options"}
     /\ ~Positive(call.args.weight))
        => ~call.out.ok

(* C3: a non-empty list of road/rail/sea/air segments, a positive weight   *)
(* and tables that serve every segment and resolve the material give a     *)
(* result with one TransportSegment per input segment, in input order,     *)
(* carrying the segment's mode and the vehicle selected for it.            *)
SegmentModes == {"road", "rail", "sea", "air"}

Served(segment, weight) ==
    LET distance == PlanarKm(segment.origin, segment.destination)
        selected == SelectBestVehicle(distance, weight, segment.mode)
    IN  /\ segment.mode \in SegmentModes
        /\ selected.ok
        /\ CalculateTransportEmissions(distance, weight, selected.val).ok

SelectedFor(segment, weight) ==
    SelectBestVehicle(PlanarKm(segment.origin, segment.destination),
                      weight, segment.mode).val

C3_OneSegmentPerInputSegment ==
    (/\ call.op = "calculate_multi_modal_emissions"
     /\ call.args.route_segments # <<>>
     /\ Positive(call.args.weight)
     /\ call.args.box_dimensions = None
     /\ \A i \in DOMAIN call.args.route_segments :
           Served(call.args.route_segments[i], call.args.weight)
     /\ CalculatePackagingEmissions(call.args.weight, call.args.material).ok)
        => /\ call.out.ok
           /\ Len(call.out.val.segments) = Len(call.args.route_segments)
           /\ \A i \in DOMAIN call.args.route_segments :
                 /\ call.out.val.segments[i].mode = call.args.route_segments[i].mode
                 /\ call.out.val.segments[i].vehicle =
                        SelectedFor(call.args.route_segments[i], call.args.weight)

(* Sums the C4 statement names, over the input segments. *)
ClaimedSpeed == [road |-> 60, rail |-> 80, sea |-> 30, air |-> 800]

RECURSIVE SumDistances(_)
SumDistances(route_segments) ==
    IF route_segments = <<>> THEN QZero
    ELSE QAdd(PlanarKm(Head(route_segments).origin, Head(route_segments).destination),
              SumDistances(Tail(route_segments)))

RECURSIVE SumTimes(_)
SumTimes(route_segments) ==
    IF route_segments = <<>> THEN QZero
    ELSE QAdd(QDiv(PlanarKm(Head(route_segments).origin,
                            Head(route_segments).destination),
                   QInt(ClaimedSpeed[Head(route_segments).mode])),
              SumTimes(Tail(route_segments)))

(* The totals of a returned result are the sums over the input segments.   *)
(* Results exist for the empty list only (see C3), where both sums are 0.  *)
ReturnedTotalsAreSums ==
    Returned("calculate_multi_modal_emissions") =>
        /\ call.out.val.total_distance = SumDistances(call.args.route_segments)
        /\ call.out.val.total_time = SumTimes(call.args.route_segments)

(* C4: calculate_multi_modal_emissions gives total_distance = the sum of   *)
(* the distances of the input segments and total_time = the sum of         *)
(* distance / speed with road 60, rail 80, sea 30, air 800 km/h, for every *)
(* list of served segments; both are 0 for the empty list.                 *)
C4_TotalsAreSums ==
    (/\ call.op = "calculate_multi_modal_emissions"
     /\ Positive(call.args.weight)
     /\ call.args.box_dimensions = None
     /\ \A i \in DOMAIN call.args.route_segments :
           Served(call.args.route_segments[i], call.args.weight)
     /\ CalculatePackagingEmissions(call.args.weight, call.args.material).ok)
        => /\ call.out.ok
           /\ call.out.val.total_distance = SumDistances(call.args.route_segments)
           /\ call.out.val.total_time = SumTimes(call.args.route_segments)

(* C5: on the road path the selection applies the van weight classes:      *)
(* 1305 kg selects Class I, 1306 kg and 1740 kg Class II, 1741 kg          *)
(* Class III, and the name returned is the van sub-class (level 3) name.   *)
ClaimedVanClass(kg) ==
    IF kg <= 1305 THEN "Class I (up to 1.305 tonnes)"
    ELSE IF kg <= 1740 THEN "Class II (1.305 to 1.74 tonnes)"
    ELSE "Class III (1.74 to 3.5 tonnes)"

C5_VanWeightClasses ==
    (/\ call.op = "_select_best_vehicle"
     /\ call.args.mode = "road"
     /\ delivery_modes = DeliveryFull
     /\ call.args.weight \in {QInt(1305), QInt(1306), QInt(1740), QInt(1741)})
        => /\ call.out.ok
           /\ call.out.val = Txt(ClaimedVanClass(call.args.weight.n))

(* C6: a box with strictly positive sides that exceeds the interior of a   *)
(* known vehicle on some axis gives total_boxes = 0 and utilization = 0    *)
(* without an error; the counts of every LoadingCapacity returned for a    *)
(* box with strictly positive sides are non-negative.                      *)
PositiveBox(box) ==
    Positive(box.length) /\ Positive(box.width) /\ Positive(box.height)

KnownVehicle(vehicle_type) ==
    ~vehicle_type.na /\ vehicle_type.s \in DOMAIN VehicleDimensions

Exceeds(box, interior) ==
    \/ QLt(interior.length, box.length)
    \/ QLt(interior.width, box.width)
    \/ QLt(interior.height, box.height)

C6_OversizedBoxLoadsNothing ==
    (call.op = "calculate_box_loading" /\ PositiveBox(call.args.box_dimensions)) =>
        /\ (/\ KnownVehicle(call.args.vehicle_type)
            /\ Exceeds(call.args.box_dimensions,
                       VehicleDimensions[call.args.vehicle_type.s]))
              => /\ call.out.ok
                 /\ call.out.val.total_boxes = 0
                 /\ QIsZero(call.out.val.utilization_percentage)
        /\ call.out.ok =>
              /\ call.out.val.rows \in Nat
              /\ call.out.val.columns \in Nat
              /\ call.out.val.layers \in Nat
              /\ call.out.val.total_boxes \in Nat

C6_Witness ==
    /\ Returned("calculate_box_loading")
    /\ PositiveBox(call.args.box_dimensions)
    /\ Exceeds(call.args.box_dimensions, VehicleDimensions[call.args.vehicle_type.s])
    /\ call.out.val.total_boxes = 0

(* C7: a box of 0.6 x 0.4 x 0.4 m, volume 0.096 m3, in 'Van - Class I'     *)
(* (2.5 x 1.7 x 1.4 m) gives rows 4, columns 4, layers 3, total 48 and     *)
(* utilization 48 * 0.096 / (2.5 * 1.7 * 1.4) * 100.                       *)
C7Case ==
    /\ call.op = "calculate_box_loading"
    /\ call.args.box_dimensions =
           BoxDimensions(Q(6, 10), Q(4, 10), Q(4, 10), Q(96, 1000))
    /\ call.args.vehicle_type = Txt("Van - Class I")

C7Counts ==
    /\ call.out.ok
    /\ call.out.val.rows = 4
    /\ call.out.val.columns = 4
    /\ call.out.val.layers = 3
    /\ call.out.val.total_boxes = 48
    /\ call.out.val.utilization_percentage =
           QMul(QDiv(QMul(QInt(48), Q(96, 1000)),
                     QMul(QMul(Q(25, 10), Q(17, 10)), Q(14, 10))),
                QInt(100))

(* x, rounded to one decimal, is tenths / 10. *)
RoundsTo(x, tenths) ==
    QLeq(Q(10 * tenths - 5, 100), x) /\ QLt(x, Q(10 * tenths + 5, 100))

(* C7 as claimed: ... and that utilization is approximately 69.6 %. *)
C7_UtilizationNear696 ==
    C7Case => (C7Counts /\ RoundsTo(call.out.val.utilization_percentage, 696))

(* C7 as amended: ... and that utilization is approximately 77.4 %. *)
C7_UtilizationNear774 ==
    C7Case => (C7Counts /\ RoundsTo(call.out.val.utilization_percentage, 774))

C7_Witness == C7Case /\ call.out.ok /\ call.out.val.total_boxes = 48

(* C8: for a known vehicle and a box with strictly positive sides          *)
(* rows = floor(width / box width), columns = floor(length / box length),  *)
(* layers = floor(height / box height), total = rows * columns * layers,   *)
(* utilization = total * volume / vehicle volume * 100, remaining =        *)
(* vehicle volume - total * volume; with volume = length * width * height  *)
(* utilization is within 0..100 and remaining >= 0.                        *)
IsFloor(k, num, den) ==
    /\ k \in Nat
    /\ QLeq(QMul(QInt(k), den), num)
    /\ QLt(num, QMul(QInt(k + 1), den))

InteriorVolume(vehicle_type) ==
    QMul(QMul(VehicleDimensions[vehicle_type.s].length,
              VehicleDimensions[vehicle_type.s].width),
         VehicleDimensions[vehicle_type.s].height)

LoadedVolume == QMul(QInt(call.out.val.total_boxes), call.args.box_dimensions.volume)

C8_LoadingFormulas ==
    (/\ call.op = "calculate_box_loading"
     /\ KnownVehicle(call.args.vehicle_type)
     /\ PositiveBox(call.args.box_dimensions))
        => /\ call.out.ok
           /\ IsFloor(call.out.val.rows,
                      VehicleDimensions[call.args.vehicle_type.s].width,
                      call.args.box_dimensions.width)
           /\ IsFloor(call.out.val.columns,
                      VehicleDimensions[call.args.vehicle_type.s].length,
                      call.args.box_dimensions.length)
           /\ IsFloor(call.out.val.layers,
                      VehicleDimensions[call.args.vehicle_type.s].height,
                      call.args.box_dimensions.height)
           /\ call.out.val.total_boxes =
                  call.out.val.rows * call.out.val.columns * call.out.val.layers
           /\ QMul(call.out.val.utilization_percentage,
                   InteriorVolume(call.args.vehicle_type))
                  = QMul(LoadedVolume, QInt(100))
           /\ QAdd(call.out.val.remaining_space, LoadedVolume)
                  = InteriorVolume(call.args.vehicle_type)
           /\ (call.args.box_dimensions.volume =
                  QMul(QMul(call.args.box_dimensions.length,
                            call.args.box_dimensions.width),
                       call.args.box_dimensions.height))
                 => /\ QLeq(QZero, call.out.val.utilization_percentage)
                    /\ QLeq(call.out.val.utilization_percentage, QInt(100))
                    /\ QLeq(QZero, call.out.val.remaining_space)

C8_Witness ==
    /\ Returned("calculate_box_loading")
    /\ PositiveBox(call.args.box_dimensions)
    /\ call.out.val.rows > 1 /\ call.out.val.columns > 1 /\ call.out.val.layers > 1
    /\ call.out.val.rows # call.out.val.columns
    /\ Positive(call.out.val.remaining_space)

(* C9: generate_route_options returns the three options eco, standard and  *)
(* express with cost factors 0.8, 1.0 and 2.5 whatever the distance; it    *)
(* returns at least whenever no route needs a facility lookup or geopy     *)
(* accepts a missing endpoint.                                             *)
DirectKm == PlanarKm(call.args.origin, call.args.destination)

C9_CostFactors ==
    call.op = "generate_route_options" =>
        /\ (geopy_none = "origin" \/ QLt(DirectKm, QInt(300))) => call.out.ok
        /\ call.out.ok =>
              /\ DOMAIN call.out.val = {"eco", "standard", "express"}
              /\ call.out.val.eco.cost_factor = Q(8, 10)
              /\ call.out.val.standard.cost_factor = QInt(1)
              /\ call.out.val.express.cost_factor = Q(25, 10)

C9_Witness ==
    /\ Returned("generate_route_options")
    /\ QLt(QInt(800), DirectKm)
    /\ call.out.val.express.cost_factor = Q(25, 10)

(* C10: the mode sequence of each option is fixed by the direct distance   *)
(* d: eco is rail if d < 800 and road, sea, road otherwise; standard is    *)
(* road if d < 500 and road to the mean of the coordinates, then rail,     *)
(* otherwise; express is road if d < 300 and road, air, road otherwise;    *)
(* each option starts at the origin, ends at the destination and each      *)
(* segment starts where the one before it ends.                            *)
ModesOf(segments) == [i \in DOMAIN segments |-> segments[i].mode]

Chained(segments, origin, destination) ==
    /\ segments # <<>>
    /\ segments[1].origin = origin
    /\ segments[Len(segments)].destination = destination
    /\ \A i \in 1..(Len(segments) - 1) :
          segments[i].destination = segments[i + 1].origin

IsMean(point, a, b) ==
    /\ point # None
    /\ \A k \in {1, 2} : QMul(QInt(2), point[k]) = QAdd(a[k], b[k])

C10_RouteShapes ==
    Returned("generate_route_options") =>
        /\ ModesOf(call.out.val.eco.segments) =
               IF QLt(DirectKm, QInt(800)) THEN <<"rail">>
               ELSE <<"road", "sea", "road">>
        /\ ModesOf(call.out.val.standard.segments) =
               IF QLt(DirectKm, QInt(500)) THEN <<"road">>
               ELSE <<"road", "rail">>
        /\ ~QLt(DirectKm, QInt(500)) =>
               IsMean(call.out.val.standard.segments[1].destination,
                      call.args.origin, call.args.destination)
        /\ ModesOf(call.out.val.express.segments) =
               IF QLt(DirectKm, QInt(300)) THEN <<"road">>
               ELSE <<"road", "air", "road">>
        /\ \A option \in {"eco", "standard", "express"} :
               Chained(call.out.val[option].segments,
                       call.args.origin, call.args.destination)

C10_Witness ==
    /\ Returned("generate_route_options")
    /\ ~QLt(DirectKm, QInt(800))
    /\ Len(call.out.val.eco.segments) = 3
    /\ Len(call.out.val.standard.segments) = 2
    /\ Len(call.out.val.express.segments) = 3

(* C11: generate_route_options for a distance that needs a port or an      *)
(* airport (express from 300 km, eco from 800 km) fails with a             *)
(* LookupFailure when the facility cannot be resolved, and so returns no   *)
(* option that has a segment with a missing endpoint.                      *)
C11_FacilityLookupFailure ==
    (call.op = "generate_route_options" /\ ~QLt(DirectKm, QInt(300))) =>
        /\ ~call.out.ok
        /\ call.out.err = "LookupFailure"

(* The first row of a table, in stored order, that passes a test. *)
HasRow(table, Test(_)) == \E i \in DOMAIN table : Test(table[i])

FirstRow(table, Test(_)) ==
    table[CHOOSE i \in DOMAIN table :
              Test(table[i]) /\ \A j \in 1..(i - 1) : ~Test(table[j])]

MaterialResolves(material) ==
    \E i \in DOMAIN materials :
        \/ StrContains(materials[i].l2, GetStandardizedMaterial(material))
        \/ StrContains(materials[i].l3, GetStandardizedMaterial(material))

PaperBoardTagged(r) ==
    \E tag \in {"paper", "board"} : StrContains(r.l2, tag) \/ StrContains(r.l3, tag)

GenericTagged(r) == \E tag \in {"waste", "disposal"} : StrContains(r.l2, tag)

(* A tenth of the weight, in tonnes for a tonne-based unit, times the      *)
(* record's factor; 0 for a record without a numeric factor.               *)
TenthTimesFactorOrZero(weight, r) ==
    IF r.ghg.na THEN QZero
    ELSE IF Contains(Lower(PyStr(r.uom)), "tonne")
    THEN QMul(QDiv(QDiv(weight, QInt(10)), QInt(1000)), r.ghg.q)
    ELSE QMul(QDiv(weight, QInt(10)), r.ghg.q)

ClaimedWaste(weight) ==
    IF HasRow(waste_methods, PaperBoardTagged)
    THEN TenthTimesFactorOrZero(weight, FirstRow(waste_methods, PaperBoardTagged))
    ELSE IF HasRow(waste_methods, GenericTagged)
    THEN TenthTimesFactorOrZero(weight, FirstRow(waste_methods, GenericTagged))
    ELSE QZero

VehicleMatches(r) == CellEq(r.l3, call.args.vehicle) \/ CellEq(r.l2, call.args.vehicle)

MaterialMatches(r) ==
    \/ StrContains(r.l2, GetStandardizedMaterial(call.args.material))
    \/ StrContains(r.l3, GetStandardizedMaterial(call.args.material))

(* C12: _calculate_waste_emissions fails when the material does not        *)
(* resolve in the material table and otherwise never fails: it returns the *)
(* value of the first paper/board record, else of the first generic        *)
(* waste/disposal record, 0 when there is neither and 0 when the record's  *)
(* factor is not numeric; _calculate_packaging_emissions and               *)
(* _calculate_transport_emissions fail on an unresolvable key and on a     *)
(* non-numeric factor.                                                     *)
C12_WasteNeverFailsOnceResolved ==
    /\ call.op = "_calculate_waste_emissions" =>
          IF MaterialResolves(call.args.material)
          THEN call.out.ok /\ call.out.val = ClaimedWaste(call.args.weight)
          ELSE ~call.out.ok
    /\ (/\ call.op = "_calculate_packaging_emissions"
        /\ \/ ~HasRow(materials, MaterialMatches)
           \/ FirstRow(materials, MaterialMatches).ghg.na)
          => ~call.out.ok
    /\ (/\ call.op = "_calculate_transport_emissions"
        /\ \/ ~HasRow(delivery_modes, VehicleMatches)
           \/ FirstRow(delivery_modes, VehicleMatches).ghg.na)
          => ~call.out.ok

C12_Witness ==
    /\ Returned("_calculate_waste_emissions")
    /\ Positive(call.args.weight)
    /\ HasRow(waste_methods, PaperBoardTagged)
    /\ FirstRow(waste_methods, PaperBoardTagged).ghg.na
    /\ QIsZero(call.out.val)

(* The vehicle names the selector returns on the loaded transport table. *)
SelectableVehicles ==
    {SelectBestVehicle(QZero, QInt(1), m).val :
        m \in {mode \in SegmentModes : SelectBestVehicle(QZero, QInt(1), mode).ok}}

VehiclesOf(segments) == {segments[i].vehicle.s : i \in DOMAIN segments}

ClaimedBoxInfo(box) ==
    [length |-> QDiv(box.length, QInt(100)),
     width  |-> QDiv(box.width, QInt(100)),
     height |-> QDiv(box.height, QInt(100)),
     volume |-> QDiv(QMul(QMul(box.length, box.width), box.height), QInt(1000000))]

(* C13: with box dimensions (in cm) calculate_multi_modal_emissions        *)
(* returns box_info = the dimensions / 100 with volume = length * width *  *)
(* height and a loading_info with exactly one LoadingCapacity per distinct *)
(* vehicle of the returned segments, for any vehicle the selector can      *)
(* return; without box dimensions box_info is absent and loading_info      *)
(* empty.                                                                  *)
C13_BoxAndLoadingInfo ==
    /\ (/\ call.op = "calculate_multi_modal_emissions"
        /\ Positive(call.args.weight)
        /\ \A i \in DOMAIN call.args.route_segments :
              Served(call.args.route_segments[i], call.args.weight)
        /\ CalculatePackagingEmissions(call.args.weight, call.args.material).ok)
          => /\ call.out.ok
             /\ Len(call.out.val.segments) = Len(call.args.route_segments)
             /\ IF call.args.box_dimensions = None
                THEN /\ call.out.val.box_info = None
                     /\ DOMAIN call.out.val.loading_info = {}
                ELSE /\ call.out.val.box_info =
                            <<ClaimedBoxInfo(call.args.box_dimensions[1])>>
                     /\ DOMAIN call.out.val.loading_info =
                            VehiclesOf(call.out.val.segments)
    /\ (/\ call.op = "calculate_box_loading"
        /\ PositiveBox(call.args.box_dimensions)
        /\ call.args.vehicle_type \in SelectableVehicles)
          => call.out.ok

LoadedTables ==
    \E w \in Worlds :
        /\ delivery_modes = w.delivery
        /\ materials = w.materials
        /\ waste_methods = w.waste

(* C14: no call, succeeding or failing, changes the transport, material    *)
(* and waste tables or the vehicle-dimension table: every step leaves      *)
(* them as they were loaded.                                               *)
C14_TablesNeverChange ==
    [][/\ tables' = tables
       /\ vehicle_dimensions' = VehicleDimensions
       /\ LoadedTables']_vars

C14_Witness ==
    /\ Failed("calculate_multi_modal_emissions")
    /\ call.out.err = "ValueError"
    /\ LoadedTables
    /\ vehicle_dimensions = VehicleDimensions

SameCallAsEarlier ==
    /\ earlier # None
    /\ call # Idle
    /\ call.op = earlier[1].op
    /\ call.args = earlier[1].args

Collected(state) ==
    state.origin # None /\ state.destination # None /\ state.weight # None

(* C16: a session in stage 'material' that holds origin, destination and   *)
(* weight and receives a recognised material gets the emission result as   *)
(* its reply and moves to stage 'calculation'.                             *)
C16_MaterialLeadsToCalculation ==
    [][\A session_id \in DOMAIN conversation_state :
          (/\ conversation_state[session_id].stage = "material"
           /\ Collected(conversation_state[session_id])
           /\ reply' # None
           /\ reply'[1].to = session_id
           /\ reply'[1].text \in {"results", "calculation error"})
             => /\ conversation_state'[session_id].stage = "calculation"
                /\ reply'[1].text = "results"]_vars

(* The records of the requested mode, as the selection finds them. *)
OfCalledMode(r) == StrContains(r.l1, ModeMapping[call.args.mode])

NumericOfCalledMode(r) == OfCalledMode(r) /\ ~r.ghg.na

(* r has the least factor among the records of the mode that have one. *)
LeastOfCalledMode(r) ==
    /\ NumericOfCalledMode(r)
    /\ \A i \in DOMAIN delivery_modes :
          NumericOfCalledMode(delivery_modes[i])
             => QLeq(r.ghg.q, delivery_modes[i].ghg.q)

(* C17: among the records of the requested mode _select_best_vehicle       *)
(* returns the one with the least factor, the first in table order among   *)
(* equals, a missing or non-numeric factor never winning; with no record   *)
(* of the mode, or none with a numeric factor, it fails.                   *)
C17_MinimumFactorOrNoCandidate ==
    (call.op = "_select_best_vehicle" /\ call.args.mode \in SegmentModes) =>
        IF HasRow(delivery_modes, NumericOfCalledMode)
        THEN /\ call.out.ok
             /\ call.out.val = FirstRow(delivery_modes, LeastOfCalledMode).l2
        ELSE ~call.out.ok

IsWTT(r) == StrContains(r.l1, "WTT")

DirectOfCalledMode(r) == OfCalledMode(r) /\ ~IsWTT(r)

(* C18: the vehicle _select_best_vehicle returns is the Level 2 name of a  *)
(* record of the requested mode that is no well-to-tank (WTT) record, also *)
(* when a WTT record of the mode has the least factor.                     *)
C18_NeverSelectsWTT ==
    (/\ Returned("_select_best_vehicle")
     /\ HasRow(delivery_modes, OfCalledMode))
        => \E i \in DOMAIN delivery_modes :
              /\ DirectOfCalledMode(delivery_modes[i])
              /\ delivery_modes[i].l2 = call.out.val

Level3Matches(r) == CellEq(r.l3, call.args.vehicle)

Level2Matches(r) == CellEq(r.l2, call.args.vehicle)

ResolvedVehicleRecord ==
    IF HasRow(delivery_modes, Level3Matches)
    THEN FirstRow(delivery_modes, Level3Matches)
    ELSE FirstRow(delivery_modes, Level2Matches)

ClaimedTransportEmissions(r) ==
    LET distance == call.args.distance
        weight   == call.args.weight
        unit     == Lower(PyStr(r.uom))
    IN  IF Contains(unit, "tonne.km")
        THEN QMul(QMul(distance, r.ghg.q), QDiv(weight, QInt(1000)))
        ELSE IF Contains(unit, "km")
        THEN QMul(distance, r.ghg.q)
        ELSE QMul(QMul(distance, r.ghg.q), weight)

(* C19: _calculate_transport_emissions takes the record whose Level 3 is   *)
(* the vehicle name and only when there is none the record whose Level 2   *)
(* is the name; it fails when no record matches or the factor of that      *)
(* record is not numeric, and otherwise returns distance * factor *        *)
(* weight / 1000 for a tonne.km unit, distance * factor for another km     *)
(* unit and distance * factor * weight for any other unit.                 *)
C19_Level3FirstThenUnitFormula ==
    call.op = "_calculate_transport_emissions" =>
        IF ~HasRow(delivery_modes, VehicleMatches) THEN ~call.out.ok
        ELSE IF ResolvedVehicleRecord.ghg.na THEN ~call.out.ok
        ELSE /\ call.out.ok
             /\ call.out.val = ClaimedTransportEmissions(ResolvedVehicleRecord)

NamesMaterial(r) ==
    LET name == Lower(GetStandardizedMaterial(call.args.material))
    IN  \/ ~r.l2.na /\ Contains(Lower(r.l2.s), name)
        \/ ~r.l3.na /\ Contains(Lower(r.l3.s), name)

ClaimedPackaging ==
    PackagingMassEmissions(call.args.weight, FirstRow(materials, NamesMaterial))

(* C20: for a shipment whose alias-resolved material names a record of the *)
(* material table (the first such record having a numeric factor),         *)
(* calculate_multi_modal_emissions returns, for every list of served       *)
(* segments and the empty list alike, breakdown.packaging = 0.1 * weight   *)
(* * factor of that record, in tonnes when its unit is tonne-based, and    *)
(* breakdown.waste = the waste value of the shipment weight.               *)
C20_PackagingAndWasteOncePerShipment ==
    (/\ call.op = "calculate_multi_modal_emissions"
     /\ Positive(call.args.weight)
     /\ call.args.box_dimensions = None
     /\ \A i \in DOMAIN call.args.route_segments :
           Served(call.args.route_segments[i], call.args.weight)
     /\ HasRow(materials, NamesMaterial)
     /\ ~FirstRow(materials, NamesMaterial).ghg.na)
        => /\ call.out.ok
           /\ call.out.val.breakdown.packaging = ClaimedPackaging
           /\ call.out.val.breakdown.waste = ClaimedWaste(call.args.weight)

Stages == <<"welcome", "origin", "destination", "weight", "material", "calculation">>

StageRank(stage) == CHOOSE i \in DOMAIN Stages : Stages[i] = stage

StagesKnown ==
    \A s \in DOMAIN conversation_state :
        \E i \in DOMAIN Stages : conversation_state[s].stage = Stages[i]

Past(state, stage) == StageRank(state.stage) > StageRank(stage)

CollectedFieldsSet ==
    \A s \in DOMAIN conversation_state :
        LET state == conversation_state[s]
        IN  /\ Past(state, "origin") => state.origin # None
            /\ Past(state, "destination") => state.destination # None
            /\ Past(state, "weight") => state.weight # None

CollectedWeightPositive ==
    \A s \in DOMAIN conversation_state :
        LET state == conversation_state[s]
        IN  Past(state, "weight") => state.weight # None /\ Positive(state.weight[1])

StageEnteredInOrder ==
    \A s \in DOMAIN conversation_state' :
        IF s \notin DOMAIN conversation_state
        THEN conversation_state'[s].stage = "welcome"
        ELSE LET before == conversation_state[s].stage
                 after  == conversation_state'[s].stage
             IN  \/ after = before
                 \/ StageRank(after) = StageRank(before) + 1
                 \/ after = "welcome" /\ before = "calculation"

Rejections ==
    {"location not found", "weight not a number", "weight not positive",
     "material not recognized"}

RejectedInputKeepsState ==
    (reply' # None /\ reply'[1].text \in Rejections)
        => conversation_state' = conversation_state

OtherSessionsUntouched ==
    \A s \in DOMAIN conversation_state :
        (reply' # None /\ reply'[1].to # s)
            => s \in DOMAIN conversation_state'
               /\ conversation_state'[s] = conversation_state[s]

(* C21: in every reachable state every session's stage is one of welcome,  *)
(* origin, destination, weight, material, calculation; origin, destination *)
(* and weight are set once the stage is past them and the weight is        *)
(* strictly positive; every handle_message step enters a stage only from   *)
(* the stage before it (welcome only by initialisation or from             *)
(* calculation), leaves the state unchanged when it rejects the input, and *)
(* never changes a session other than the addressed one.                   *)
C21_SessionStateInvariants ==
    /\ [](StagesKnown /\ CollectedFieldsSet /\ CollectedWeightPositive)
    /\ [][/\ StageEnteredInOrder
          /\ RejectedInputKeepsState
          /\ OtherSessionsUntouched]_vars

=============================================================================
